---- MODULE Spec2Model ----
(***************************************************************************)
(* n-largest CLI (src/n_largest.py): the `get` command fetches a remote    *)
(* text file of "id number" lines by HTTP range requests into a gzip cache *)
(* file named after sha256(url), then prints the ids of the n largest      *)
(* numbers.                                                                *)
(*                                                                         *)
(* Bytes are integers 0..255, text is a sequence of code points.  The      *)
(* cache file is modelled by its decompressed bytes plus whether the gzip  *)
(* stream has been closed (trailer written).  One URL and one cache root   *)
(* are modelled; invocations of get run one after another.                 *)
(***************************************************************************)
EXTENDS Integers, Sequences, FiniteSets, TLC

(***************************************************************************)
(* Bounds of the model.                                                    *)
(***************************************************************************)
\* n ranges over 1..MaxN (click.IntRange(min=1), line 38).
MaxN == 3
\* Smallest chunk size tried; stands for the 1024 of line 36, scaled down.
MinChunkSize == 5
\* Longest record stream the selector specification draws.
MaxStream == 4
\* Largest value a record of the selector specification carries.
MaxValue == 3
\* Longest file the record-stream specification draws, in bytes.
MaxFileLen == 8

\* Values of --chunk-size the model tries.
ChunkSizes == {MinChunkSize, MinChunkSize + 3}

Procs == {1, 2}

(***************************************************************************)
(* Constants of the program.                                               *)
(***************************************************************************)
\* constants.SUCCESS_STATUS: the partial-content status.
SUCCESS_STATUS == 206
\* constants.FILE_START: offset of the first range request.
FILE_START == 0
\* requests.codes.range_not_satisfiable
range_not_satisfiable == 416
\* requests.codes.ok
codes_ok == 200

(***************************************************************************)
(* Text conversions: Response.text and str.encode().                       *)
(***************************************************************************)
RECURSIVE decode(_, _)
\* str(content, encoding, errors='replace') for the two encodings the model
\* uses; UTF-8 is decoded in its one- and two-byte forms, every other byte
\* becomes U+FFFD (the model's bytes stay below 224).
decode(bytes, encoding) ==
    IF bytes = <<>> THEN <<>>
    ELSE LET b == Head(bytes) IN
         IF encoding = "ISO-8859-1" \/ b < 128
         THEN <<b>> \o decode(Tail(bytes), encoding)
         ELSE IF /\ b >= 194 /\ b <= 223 /\ Len(bytes) >= 2
                 /\ bytes[2] >= 128 /\ bytes[2] <= 191
              THEN <<(b - 192) * 64 + (bytes[2] - 128)>>
                       \o decode(Tail(Tail(bytes)), encoding)
              ELSE <<65533>> \o decode(Tail(bytes), encoding)

RECURSIVE encode(_)
\* str.encode(): UTF-8 of a sequence of code points below 65536.
encode(text) ==
    IF text = <<>> THEN <<>>
    ELSE LET c == Head(text) IN
         (IF c < 128 THEN <<c>>
          ELSE IF c < 2048 THEN <<192 + (c \div 64), 128 + (c % 64)>>
          ELSE <<224 + (c \div 4096), 128 + ((c \div 64) % 64), 128 + (c % 64)>>)
         \o encode(Tail(text))

(***************************************************************************)
(* RecordStream: split_generator and id_number_tuple_generator.            *)
(***************************************************************************)
\* Whitespace of str.strip() and of \s among the model's bytes.
IsSpace(b) == b \in (9..13) \cup (28..32)

IsDigit(b) == b >= 48 /\ b <= 57

RECURSIVE readlines(_, _)
\* file.readline() until it returns b'': the lines of the file, each ending
\* with its newline except possibly the last.
readlines(bytes, line) ==
    IF bytes = <<>> THEN (IF line = <<>> THEN <<>> ELSE <<line>>)
    ELSE IF Head(bytes) = 10
         THEN <<Append(line, 10)>> \o readlines(Tail(bytes), <<>>)
         ELSE readlines(Tail(bytes), Append(line, Head(bytes)))

RECURSIVE lstrip(_)
lstrip(s) == IF s # <<>> /\ IsSpace(Head(s)) THEN lstrip(Tail(s)) ELSE s

RECURSIVE rstrip(_)
rstrip(s) ==
    IF s # <<>> /\ IsSpace(s[Len(s)]) THEN rstrip(SubSeq(s, 1, Len(s) - 1)) ELSE s

strip(s) == rstrip(lstrip(s))

RECURSIVE re_split(_, _, _)
\* re.split('\\s+', s): the pieces of s between maximal runs of whitespace
\* (a leading or trailing run leaves an empty piece; '' gives ['']).
re_split(s, piece, in_run) ==
    IF s = <<>> THEN <<piece>>
    ELSE IF IsSpace(Head(s))
         THEN IF in_run THEN re_split(Tail(s), piece, TRUE)
              ELSE <<piece>> \o re_split(Tail(s), <<>>, TRUE)
         ELSE re_split(Tail(s), Append(piece, Head(s)), FALSE)

\* One item of split_generator (line 141).
split_line(line) == re_split(strip(line), <<>>, FALSE)

\* int(number) accepts an optional sign followed by decimal digits.
IsInt(tok) ==
    LET digits == IF tok # <<>> /\ Head(tok) \in {43, 45} THEN Tail(tok) ELSE tok
    IN  digits # <<>> /\ \A i \in 1..Len(digits) : IsDigit(digits[i])

RECURSIVE digits_value(_)
digits_value(d) ==
    IF d = <<>> THEN 0
    ELSE 10 * digits_value(SubSeq(d, 1, Len(d) - 1)) + (d[Len(d)] - 48)

int(tok) ==
    IF Head(tok) = 45 THEN 0 - digits_value(Tail(tok))
    ELSE IF Head(tok) = 43 THEN digits_value(Tail(tok))
    ELSE digits_value(tok)

\* The unpacking `num_id, number` of line 132 needs exactly two tokens, and
\* int(number) of line 133 an integer literal.
LineOk(line) ==
    LET toks == split_line(line) IN Len(toks) = 2 /\ IsInt(toks[2])

\* The (num_id, int(number)) tuple line 133 yields.
LineRecord(line) == LET toks == split_line(line) IN <<toks[1], int(toks[2])>>

\* Whether id_number_tuple_generator runs to the end of the file.
StreamOk(bytes) ==
    LET lines == readlines(bytes, <<>>)
    IN  \A i \in 1..Len(lines) : LineOk(lines[i])

\* The records id_number_tuple_generator yields before it stops or fails.
RECURSIVE records_of(_)
records_of(lines) ==
    IF lines = <<>> \/ ~LineOk(Head(lines)) THEN <<>>
    ELSE <<LineRecord(Head(lines))>> \o records_of(Tail(lines))

id_number_tuple_generator(bytes) == records_of(readlines(bytes, <<>>))

(***************************************************************************)
(* TopNSelector: heapq.nlargest(n, iterable, key=itemgetter(1)) as CPython *)
(* computes it for an iterable without a length.  The heap holds entries   *)
(* <<k, order, elem>>; only its minimum is ever looked at, so it is kept   *)
(* as a set.                                                               *)
(***************************************************************************)
\* itemgetter(1): the number of an (id, number) tuple.
key(elem) == elem[2]

\* Tuple comparison of two heap entries; orders are distinct, so the
\* element itself is never compared.
EntryLess(a, b) == a[1] < b[1] \/ (a[1] = b[1] /\ a[2] < b[2])

\* result[0] of the heap.
HeapMin(heap) == CHOOSE e \in heap : \A f \in heap : f = e \/ EntryLess(e, f)

HeapMax(heap) == CHOOSE e \in heap : \A f \in heap : f = e \/ EntryLess(f, e)

\* [(key(elem), i, elem) for i, elem in zip(range(0, -n, -1), it)]
first_entries(n, it) ==
    {<<key(it[i]), 1 - i, it[i]>> : i \in 1..(IF n < Len(it) THEN n ELSE Len(it))}

\* `if top < k` of the scan: a later element replaces the minimum only when
\* it is strictly greater.
ShouldReplaceTies(top, k) == top <= k

ShouldReplace(top, k) == top < k

RECURSIVE nlargest_scan(_, _, _)
\* The loop over the rest of the iterable, with heapreplace.
nlargest_scan(heap, order, rest) ==
    IF rest = <<>> THEN heap
    ELSE LET elem == Head(rest)
             k    == key(elem)
             top  == HeapMin(heap)
         IN  IF ShouldReplace(top[1], k)
             THEN nlargest_scan((heap \ {top}) \cup {<<k, order, elem>>},
                                order - 1, Tail(rest))
             ELSE nlargest_scan(heap, order, Tail(rest))

RECURSIVE sort_reverse(_)
\* result.sort(reverse=True)
sort_reverse(heap) ==
    IF heap = {} THEN <<>>
    ELSE LET m == HeapMax(heap) IN <<m>> \o sort_reverse(heap \ {m})

\* The mutant of drain: the heap's entries in ascending order.
RECURSIVE sort_forward(_)
sort_forward(heap) ==
    IF heap = {} THEN <<>>
    ELSE LET m == HeapMin(heap) IN <<m>> \o sort_forward(heap \ {m})

drain_unsorted(heap) == sort_forward(heap)

\* The final sort and the list comprehension's input.
drain(heap) == sort_reverse(heap)

\* max(it, default=sentinel, key=key): the first element of greatest key.
first_max(it) ==
    LET i == CHOOSE j \in 1..Len(it) :
                 /\ \A l \in 1..Len(it) : key(it[l]) <= key(it[j])
                 /\ \A l \in 1..(j - 1) : key(it[l]) < key(it[j])
    IN  it[i]

nlargest(n, it) ==
    IF n = 1
    THEN (IF it = <<>> THEN <<>> ELSE <<first_max(it)>>)
    ELSE LET first == first_entries(n, it)
         IN  IF first = {} THEN <<>>
             ELSE LET sorted == drain(nlargest_scan(first, 0 - n,
                                          SubSeq(it, n + 1, Len(it))))
                  IN  [i \in 1..Len(sorted) |-> sorted[i][3]]

\* process_file (lines 122-123) on the decompressed bytes of the file.
process_file(bytes, n) == nlargest(n, id_number_tuple_generator(bytes))

(***************************************************************************)
(* State.                                                                  *)
(***************************************************************************)
VARIABLES
    remote,         \* the remote resource: its bytes and the charset served
    cache,          \* the file <cache_root>/<sha256(url)>.gz
    origin,         \* history: n and output of the run that created the file
    pc,             \* where each invocation of `get` stands
    args,           \* no_cache, refresh_cache, chunk_size, n of each invocation
    current_chunk,  \* offset of the current range window
    req,            \* the last response received
    n_largest,      \* the list process_file returned
    out,            \* the ids echoed to stdout so far
    err,            \* the exception that ended the invocation
    sent,           \* history: the Range headers issued by the invocation
    bodies,         \* history: the bodies of its partial-content responses
    before,         \* history: the cache file as line 148 found it
    sel,            \* the selector's input and result (specification SpecSel)
    dir,            \* the cache roots and the configuration (specification SpecDir)
    rec             \* the record stream over one file (specification SpecRec)

\* The state of the specifications that do not run the pipeline.
aux == <<dir, rec>>

vars == <<remote, cache, origin, pc, args, current_chunk, req, n_largest, out,
          err, sent, bodies, before, sel, aux>>

\* What one invocation holds.
locals == <<pc, args, current_chunk, req, n_largest, out, err, sent, bodies, before>>

\* "a 5\nb 9\nb2 9\nc 1\n", "b 9\na<e-acute> 5\n" in UTF-8, "a 5\nb\nc 7\n",
\* and the empty resource.
Resources ==
    { <<97, 32, 53, 10, 98, 32, 57, 10, 98, 50, 32, 57, 10, 99, 32, 49, 10>>,
      <<98, 32, 57, 10, 97, 195, 169, 32, 53, 10>>,
      <<97, 32, 53, 10, 98, 10, 99, 32, 55, 10>>,
      <<>> }

\* Response.encoding as the server's Content-Type makes it: text/plain
\* without a charset gives ISO-8859-1, charset=utf-8 gives utf-8.
Encodings == {"ISO-8859-1", "utf-8"}

\* The body servers send with an error status ("E").
ErrorPage == <<69>>

\* No file at the path.  A file has its decompressed bytes, whether its gzip
\* stream is closed, and whether a second writer truncated it while a first
\* was still writing (two writers on one inode leave a mix of two streams).
NoFile == [exists |-> FALSE, data |-> <<>>, sealed |-> FALSE, torn |-> FALSE]
NoOrigin == [n |-> 0, out |-> <<>>]
NoArgs == [no_cache |-> FALSE, refresh_cache |-> FALSE, chunk_size |-> 0, n |-> 0]
NoReq == [status_code |-> 0, body |-> <<>>]
NoSel == [stream |-> <<>>, n |-> 1, result |-> <<>>, done |-> FALSE]
NoDir == [config |-> "none", exists |-> {}, files |-> <<>>, target |-> "none",
          old |-> "none", listed |-> {}, url |-> 0, refresh |-> FALSE,
          hit |-> FALSE, requests |-> 0, pc |-> "off"]
NoRec == [bytes |-> <<>>, lines |-> <<>>, at |-> 0, yielded |-> <<>>,
          from |-> <<>>, status |-> "off"]

(***************************************************************************)
(* RangeFetcher and CacheStore: get_remote_file (lines 144-167).           *)
(***************************************************************************)
\* Line 170-171: the first and last byte position of the Range header.
make_range_header(chunk, chunk_size) == <<chunk, chunk + chunk_size>>

\* Line 148: the file exists and no refresh is asked for.
cache_hit(file, should_refresh) == file.exists /\ ~should_refresh

\* The loop without the test of line 157: 200 goes to raise_for_status().
disposition_without_ok_test(status_code) ==
    IF status_code = range_not_satisfiable THEN "end"
    ELSE IF status_code = SUCCESS_STATUS THEN "write"
    ELSE IF status_code >= 400 /\ status_code < 600 THEN "http_error"
    ELSE "skip"

\* Lines 153-160: what the loop does with a response of this status.
\* raise_for_status() raises for 400..599 and returns for every other status.
disposition(status_code) ==
    IF status_code = range_not_satisfiable THEN "end"
    ELSE IF status_code = SUCCESS_STATUS THEN "write"
    ELSE IF status_code = codes_ok THEN "unsupported"
    ELSE IF status_code >= 400 /\ status_code < 600 THEN "http_error"
    ELSE "skip"

\* Line 152/163 and 155: req.text, then content.encode().
text(response) == decode(response.body, remote.encoding)

written(response) == encode(text(response))

\* The file an exception leaves behind: it stays where gzip.open created it,
\* and as the exception unwinds CPython finalizes the GzipFile, which writes
\* what was buffered and the trailer.
abandoned(file) == [file EXCEPT !.sealed = TRUE]

\* A window that advances by its size, as if its end were exclusive.
advance_by_size(chunk, chunk_size) == chunk + chunk_size

\* A window that advances by two steps at once.
advance_twice(chunk, chunk_size) == chunk + 2 * (chunk_size + 1)

\* Line 161.
advance(chunk, chunk_size) == chunk + chunk_size + 1

\* The statuses the server may answer a request at this offset with.
ServerStatuses(offset) ==
    IF offset < Len(remote.body) THEN {206, 200, 204, 500} ELSE {416, 200, 500}

\* The body that comes with the status: the bytes first..last of the resource
\* (positions count from 0), the whole resource, nothing, or an error page.
ServerBody(status, range) ==
    IF status = 206
    THEN SubSeq(remote.body, range[1] + 1,
                IF range[2] + 1 < Len(remote.body) THEN range[2] + 1
                ELSE Len(remote.body))
    ELSE IF status = 200 THEN remote.body
    ELSE IF status = 204 THEN <<>>
    ELSE ErrorPage

\* The invocations that hold the file open for writing (lines 150-166), and
\* for reading (lines 63-66).
Writers == {q \in Procs : pc[q] \in {"request", "loop"}}

Readers == {q \in Procs : pc[q] \in {"process", "print"}}

\* Whether the invocation took the early return of line 149.
Hit(p) == pc[p] \in {"open", "process", "print", "remove", "done", "failed"}
          /\ sent[p] = <<>>

\* An exception ends the invocation.
Raise(p, e) ==
    /\ pc' = [pc EXCEPT ![p] = "failed"]
    /\ err' = [err EXCEPT ![p] = e]

\* Line 62: get calls get_remote_file.  One invocation runs at a time.
Invoke(p) ==
    /\ \A q \in Procs : pc[q] = "idle"
    /\ \E nc \in BOOLEAN, rc \in BOOLEAN, cs \in ChunkSizes, n \in 1..MaxN :
           args' = [args EXCEPT ![p] = [no_cache |-> nc, refresh_cache |-> rc,
                                        chunk_size |-> cs, n |-> n]]
    /\ pc' = [pc EXCEPT ![p] = "check"]
    /\ current_chunk' = [current_chunk EXCEPT ![p] = FILE_START]
    /\ UNCHANGED <<remote, cache, origin, req, n_largest, out, err, sent,
                   bodies, before, sel, aux>>

\* Lines 148-149: cache hit, return the file name without a request.
CacheHit(p) ==
    /\ pc[p] = "check"
    /\ cache_hit(cache, args[p].refresh_cache)
    /\ pc' = [pc EXCEPT ![p] = "open"]
    /\ before' = [before EXCEPT ![p] = cache]
    /\ UNCHANGED <<remote, cache, origin, args, current_chunk, req, n_largest,
                   out, err, sent, bodies, sel, aux>>

\* Lines 148, 150: miss or refresh; gzip.open(cache_file, 'wb+') creates or
\* truncates the file.
CreateFile(p) ==
    /\ pc[p] = "check"
    /\ ~cache_hit(cache, args[p].refresh_cache)
    /\ before' = [before EXCEPT ![p] = cache]
    /\ cache' = [exists |-> TRUE, data |-> <<>>, sealed |-> FALSE,
                 torn |-> cache.exists /\ Writers \ {p} # {}]
    /\ origin' = [n |-> args[p].n, out |-> <<>>]
    /\ pc' = [pc EXCEPT ![p] = "request"]
    /\ UNCHANGED <<remote, args, current_chunk, req, n_largest, out, err, sent,
                   bodies, sel, aux>>

\* Lines 151-152 and 162-163: one range request and its response.
Request(p) ==
    /\ pc[p] = "request"
    /\ LET range == make_range_header(current_chunk[p], args[p].chunk_size)
       IN  /\ sent' = [sent EXCEPT ![p] = Append(@, range)]
           /\ \E status \in ServerStatuses(current_chunk[p]) :
                  req' = [req EXCEPT ![p] = [status_code |-> status,
                                             body |-> ServerBody(status, range)]]
    /\ pc' = [pc EXCEPT ![p] = "loop"]
    /\ UNCHANGED <<remote, cache, origin, args, current_chunk, n_largest, out,
                   err, bodies, before, sel, aux>>

\* Lines 154-155, 161: a partial-content response is written and the window
\* advances.
WriteChunk(p) ==
    /\ pc[p] = "loop"
    /\ disposition(req[p].status_code) = "write"
    /\ cache' = IF cache.torn THEN cache
                 ELSE [cache EXCEPT !.data = @ \o written(req[p])]
    /\ bodies' = [bodies EXCEPT ![p] = Append(@, req[p].body)]
    /\ current_chunk' = [current_chunk EXCEPT ![p] = advance(@, args[p].chunk_size)]
    /\ pc' = [pc EXCEPT ![p] = "request"]
    /\ UNCHANGED <<remote, origin, args, req, n_largest, out, err, sent, before, sel, aux>>

\* Lines 157-159: 200 OK, the host ignores Range.  Nothing removes the file.
RaiseUnsupported(p) ==
    /\ pc[p] = "loop"
    /\ disposition(req[p].status_code) = "unsupported"
    /\ Raise(p, "HTTPError")
    /\ cache' = abandoned(cache)
    /\ UNCHANGED <<remote, origin, args, current_chunk, req, n_largest, out,
                   sent, bodies, before, sel, aux>>

\* Line 160: raise_for_status() raises.
RaiseForStatus(p) ==
    /\ pc[p] = "loop"
    /\ disposition(req[p].status_code) = "http_error"
    /\ Raise(p, "HTTPError")
    /\ cache' = abandoned(cache)
    /\ UNCHANGED <<remote, origin, args, current_chunk, req, n_largest, out,
                   sent, bodies, before, sel, aux>>

\* Lines 160-161: raise_for_status() returns; nothing is written and the
\* window advances.
SkipChunk(p) ==
    /\ pc[p] = "loop"
    /\ disposition(req[p].status_code) = "skip"
    /\ current_chunk' = [current_chunk EXCEPT ![p] = advance(@, args[p].chunk_size)]
    /\ pc' = [pc EXCEPT ![p] = "request"]
    /\ UNCHANGED <<remote, cache, origin, args, req, n_largest, out, err, sent,
                   bodies, before, sel, aux>>

\* Lines 153, 164-167: range not satisfiable ends the loop; flush, fsync,
\* close, return.
CloseFile(p) ==
    /\ pc[p] = "loop"
    /\ disposition(req[p].status_code) = "end"
    /\ cache' = [cache EXCEPT !.sealed = TRUE]
    /\ pc' = [pc EXCEPT ![p] = "open"]
    /\ UNCHANGED <<remote, origin, args, current_chunk, req, n_largest, out,
                   err, sent, bodies, before, sel, aux>>

(***************************************************************************)
(* Orchestrator: the rest of get (lines 63-68).                            *)
(***************************************************************************)
\* A selector that stops at a malformed line instead of raising.
can_select_lenient(file) == TRUE

\* Whether process_file runs to its end on this file: the gzip stream is
\* whole and every line unpacks into an id and an integer.
can_select(file) == file.sealed /\ ~file.torn /\ StreamOk(file.data)

\* Line 63: gzip.open(cache_root / file_name, 'rb').
OpenFile(p) ==
    /\ pc[p] = "open"
    /\ cache.exists
    /\ pc' = [pc EXCEPT ![p] = "process"]
    /\ UNCHANGED <<remote, cache, origin, args, current_chunk, req, n_largest,
                   out, err, sent, bodies, before, sel, aux>>

\* Line 64: process_file reads the whole file and returns the n largest.
Process(p) ==
    /\ pc[p] = "process"
    /\ can_select(cache)
    /\ n_largest' = [n_largest EXCEPT ![p] = process_file(cache.data, args[p].n)]
    /\ pc' = [pc EXCEPT ![p] = "print"]
    /\ UNCHANGED <<remote, cache, origin, args, current_chunk, req, out, err,
                   sent, bodies, before, sel, aux>>

\* Lines 132-133: a line that does not unpack, or whose number is no
\* integer, raises ValueError out of process_file.
ParseFails(p) ==
    /\ pc[p] = "process"
    /\ cache.sealed /\ ~cache.torn
    /\ ~can_select(cache)
    /\ Raise(p, "ValueError")
    /\ UNCHANGED <<remote, cache, origin, args, current_chunk, req, n_largest,
                   out, sent, bodies, before, sel, aux>>

\* Lines 127-128: print_n_largest echoes the next id.
PrintNext(p) ==
    /\ pc[p] = "print"
    /\ Len(out[p]) < Len(n_largest[p])
    /\ LET num_id == n_largest[p][Len(out[p]) + 1][1]
       IN  /\ out' = [out EXCEPT ![p] = Append(@, num_id)]
           /\ origin' = IF Hit(p) THEN origin
                        ELSE [origin EXCEPT !.out = Append(@, num_id)]
    /\ UNCHANGED <<remote, cache, pc, args, current_chunk, req, n_largest, err,
                   sent, bodies, before, sel, aux>>

\* Lines 66-67: every id is out; close the file and test no_cache.
PrintDone(p) ==
    /\ pc[p] = "print"
    /\ Len(out[p]) = Len(n_largest[p])
    /\ pc' = [pc EXCEPT ![p] = IF args[p].no_cache THEN "remove" ELSE "done"]
    /\ UNCHANGED <<remote, cache, origin, args, current_chunk, req, n_largest,
                   out, err, sent, bodies, before, sel, aux>>

\* The removal placed before print_n_largest.
RemoveBeforePrint(p) ==
    /\ pc[p] = "print"
    /\ args[p].no_cache
    /\ out[p] = <<>>
    /\ cache.exists
    /\ cache' = NoFile
    /\ origin' = NoOrigin
    /\ UNCHANGED <<remote, locals, sel, aux>>

\* What remove() leaves: no file at the path.  While another invocation
\* holds the file open its bytes stay readable and writable through that
\* handle.
unlinked(p, file) ==
    IF (Writers \cup Readers) \ {p} = {} THEN NoFile
    ELSE [file EXCEPT !.exists = FALSE]

\* Line 68: remove(cache_root / file_name).
Remove(p) ==
    /\ pc[p] = "remove"
    /\ cache.exists
    /\ cache' = unlinked(p, cache)
    /\ origin' = NoOrigin
    /\ pc' = [pc EXCEPT ![p] = "done"]
    /\ UNCHANGED <<remote, args, current_chunk, req, n_largest, out, err, sent,
                   bodies, before, sel, aux>>

\* The process ends; its locals are gone.
Exit(p) ==
    /\ pc[p] \in {"done", "failed"}
    /\ pc' = [pc EXCEPT ![p] = "idle"]
    /\ args' = [args EXCEPT ![p] = NoArgs]
    /\ current_chunk' = [current_chunk EXCEPT ![p] = FILE_START]
    /\ req' = [req EXCEPT ![p] = NoReq]
    /\ n_largest' = [n_largest EXCEPT ![p] = <<>>]
    /\ out' = [out EXCEPT ![p] = <<>>]
    /\ err' = [err EXCEPT ![p] = "none"]
    /\ sent' = [sent EXCEPT ![p] = <<>>]
    /\ bodies' = [bodies EXCEPT ![p] = <<>>]
    /\ before' = [before EXCEPT ![p] = NoFile]
    /\ UNCHANGED <<remote, cache, origin, sel, aux>>

(***************************************************************************)
(* Specification of the pipeline: invocations of get, one after another,   *)
(* against one remote resource and one cache root.                         *)
(***************************************************************************)
IdleLocals ==
    /\ pc = [p \in Procs |-> "idle"]
    /\ args = [p \in Procs |-> NoArgs]
    /\ current_chunk = [p \in Procs |-> FILE_START]
    /\ req = [p \in Procs |-> NoReq]
    /\ n_largest = [p \in Procs |-> <<>>]
    /\ out = [p \in Procs |-> <<>>]
    /\ err = [p \in Procs |-> "none"]
    /\ sent = [p \in Procs |-> <<>>]
    /\ bodies = [p \in Procs |-> <<>>]
    /\ before = [p \in Procs |-> NoFile]

Init ==
    /\ remote \in [body : Resources, encoding : Encodings]
    /\ cache = NoFile
    /\ origin = NoOrigin
    /\ IdleLocals
    /\ sel = NoSel
    /\ dir = NoDir
    /\ rec = NoRec

Next ==
    \E p \in Procs :
        \/ Invoke(p)
        \/ CacheHit(p)
        \/ CreateFile(p)
        \/ Request(p)
        \/ WriteChunk(p)
        \/ RaiseUnsupported(p)
        \/ RaiseForStatus(p)
        \/ SkipChunk(p)
        \/ CloseFile(p)
        \/ OpenFile(p)
        \/ Process(p)
        \/ ParseFails(p)
        \/ PrintNext(p)
        \/ PrintDone(p)
        \/ Remove(p)
        \/ Exit(p)

Spec == Init /\ [][Next]_vars

(***************************************************************************)
(* Specification of the selector alone: process_file's heapq.nlargest on   *)
(* every stream of at most MaxStream records.  A record's id is its place  *)
(* in the stream.                                                          *)
(***************************************************************************)
Streams ==
    UNION { { [i \in 1..len |-> <<i, f[i]>>] : f \in [1..len -> 1..MaxValue] }
            : len \in 0..MaxStream }

InitSel ==
    /\ remote = [body |-> <<>>, encoding |-> "utf-8"]
    /\ cache = NoFile
    /\ origin = NoOrigin
    /\ IdleLocals
    /\ sel \in [stream : Streams, n : 1..MaxN, result : {<<>>}, done : {FALSE}]
    /\ dir = NoDir
    /\ rec = NoRec

\* Lines 122-123 on the drawn stream.
Select ==
    /\ ~sel.done
    /\ sel' = [sel EXCEPT !.result = nlargest(sel.n, sel.stream), !.done = TRUE]
    /\ UNCHANGED <<remote, cache, origin, locals, aux>>

NextSel == Select

SpecSel == InitSel /\ [][NextSel]_vars

(***************************************************************************)
(* Properties.                                                             *)
(***************************************************************************)
Quiet == \A p \in Procs : pc[p] \in {"idle", "done", "failed"}

RECURSIVE Concat(_)
Concat(seqs) == IF seqs = <<>> THEN <<>> ELSE Head(seqs) \o Concat(Tail(seqs))

Ids(records) == [i \in 1..Len(records) |-> records[i][1]]

IsPrefix(s, t) == Len(s) <= Len(t) /\ SubSeq(t, 1, Len(s)) = s

RECURSIVE CompleteFetch(_, _)
\* What a fetch writes when every window below the end of the resource is
\* answered with partial content.
CompleteFetch(offset, chunk_size) ==
    IF offset >= Len(remote.body) THEN <<>>
    ELSE written([status_code |-> SUCCESS_STATUS,
                  body |-> ServerBody(SUCCESS_STATUS,
                                      make_range_header(offset, chunk_size))])
         \o CompleteFetch(advance(offset, chunk_size), chunk_size)

\* C1: whenever no invocation is running, the cache entry is absent or is a
\* closed file holding what a complete fetch writes; an aborted fetch leaves
\* no file behind.
C1_AbsentOrComplete ==
    Quiet => \/ ~cache.exists
             \/ /\ cache.sealed
                /\ \E cs \in ChunkSizes : cache.data = CompleteFetch(FILE_START, cs)

\* C2: an invocation that found the entry present and was not asked to
\* refresh ends having issued no request, with the file as it found it, and
\* with the same ids in the same order as the run that created the entry
\* printed for the same n.
C2_HitReproducesOutput ==
    \A p \in Procs :
        (pc[p] = "done" /\ before[p].exists /\ ~args[p].refresh_cache
             /\ ~args[p].no_cache)
        => /\ sent[p] = <<>>
           /\ cache = before[p]
           /\ (origin.n = args[p].n => out[p] = origin.out)

\* C3: process_file returns min(n, L) records of a stream of L records, in
\* descending order of value; with n > L it returns all L.
C3_MinRecordsDescending ==
    sel.done =>
        /\ Len(sel.result) = (IF sel.n < Len(sel.stream) THEN sel.n
                              ELSE Len(sel.stream))
        /\ \A i, j \in 1..Len(sel.result) :
               i < j => key(sel.result[i]) >= key(sel.result[j])

\* C3's case: n exceeds the number of records, which carry distinct values
\* in ascending order.
C3_Witness ==
    /\ sel.done
    /\ sel.n > Len(sel.stream)
    /\ sel.stream = <<<<1, 1>>, <<2, 2>>>>
    /\ sel.result = <<<<2, 2>>, <<1, 1>>>>

\* C4: the records returned are records of the stream, each once; no omitted
\* record is greater than a returned one; an omitted record equal to a
\* returned one was seen after it; returned records of equal value keep
\* their input order.
C4_LargestFirstSeen ==
    sel.done =>
        LET r == sel.result
            returned == {r[i][1] : i \in 1..Len(r)}
            omitted == (1..Len(sel.stream)) \ returned
        IN  /\ \A i \in 1..Len(r) : r[i][1] \in 1..Len(sel.stream)
                                     /\ r[i] = sel.stream[r[i][1]]
            /\ Cardinality(returned) = Len(r)
            /\ \A i \in 1..Len(r) : \A o \in omitted :
                   \/ key(sel.stream[o]) < key(r[i])
                   \/ key(sel.stream[o]) = key(r[i]) /\ r[i][1] < o
            /\ \A i, j \in 1..Len(r) :
                   (i < j /\ key(r[i]) = key(r[j])) => r[i][1] < r[j][1]

\* C4's case: the scenario a 5, b 9, b2 9, c 1 with n = 2 (values 2, 3, 3, 1
\* at places 1..4) gives b then b2; and a cut inside a group of equals.
C4_Witness ==
    /\ sel.done
    /\ sel.n = 2
    /\ sel.stream = <<<<1, 2>>, <<2, 3>>, <<3, 3>>, <<4, 1>>>>
    /\ sel.result = <<<<2, 3>>, <<3, 3>>>>

\* C5: when the fetch loop has ended on range-not-satisfiable and the file
\* is closed, the file holds exactly the bodies of the partial-content
\* responses of this fetch, concatenated in request order.
C5_ContentIsBodies ==
    \A p \in Procs :
        (pc[p] = "open" /\ sent[p] # <<>>) => cache.data = Concat(bodies[p])

\* C6: a response with status 200 ends the invocation with an HTTPError,
\* with the file's bytes, the window and the requests issued as they were;
\* a failed invocation does nothing further.
C6_OkAborts ==
    [][\A p \in Procs :
          /\ (pc[p] = "loop" /\ req[p].status_code = codes_ok)
             => /\ pc'[p] = "failed"
                /\ err'[p] = "HTTPError"
                /\ cache'.data = cache.data
                /\ current_chunk'[p] = current_chunk[p]
                /\ sent'[p] = sent[p]
          /\ pc[p] = "failed" => pc'[p] \in {"failed", "idle"}]_vars

\* C6's case: a 200 answered a later request, after a chunk was written.
C6_Witness ==
    \E p \in Procs :
        /\ pc[p] = "failed"
        /\ req[p].status_code = codes_ok
        /\ Len(sent[p]) >= 2
        /\ cache.data # <<>>

\* C7: a response whose status is neither 206 nor 416 ends the invocation
\* with an error; the loop never goes on to another request after it.
C7_OtherStatusAborts ==
    [][\A p \in Procs :
          (pc[p] = "loop"
               /\ req[p].status_code \notin {SUCCESS_STATUS, range_not_satisfiable})
          => pc'[p] = "failed"]_vars

\* C8: an invocation with --no-cache that found the entry present ends
\* having fetched the remote file (range requests were issued) and with no
\* cache entry left.
C8_NoCacheRefetches ==
    \A p \in Procs :
        (pc[p] = "done" /\ args[p].no_cache /\ before[p].exists)
        => sent[p] # <<>> /\ ~cache.exists

\* C9: the cache file disappears only by the remove step of a --no-cache
\* invocation that has echoed every id of its result; an invocation that
\* fails in process_file leaves the file as it was, present.
C9_RemoveAfterEmission ==
    [][/\ (cache.exists /\ ~cache'.exists)
          => \E p \in Procs : /\ args[p].no_cache
                              /\ pc[p] = "remove"
                              /\ out[p] = Ids(n_largest[p])
       /\ \A p \in Procs :
             (pc[p] = "process" /\ pc'[p] = "failed")
             => cache.exists /\ cache' = cache]_vars

\* C9's case: a --no-cache run that fetched, echoed two ids and removed the
\* file.
C9_Witness ==
    \E p \in Procs :
        /\ pc[p] = "done"
        /\ args[p].no_cache
        /\ sent[p] # <<>>
        /\ Len(out[p]) >= 2
        /\ ~cache.exists

\* C10: a failed invocation has echoed nothing; an id is out only when the
\* fetch (if any) ended on range-not-satisfiable and process_file ran to
\* the end of a well-formed file, and what is out is a prefix of its
\* result, the whole of it once the invocation is done.
C10_OutputCompleteOrEmpty ==
    \A p \in Procs :
        /\ pc[p] = "failed" => out[p] = <<>>
        /\ pc[p] = "done" => out[p] = Ids(n_largest[p])
        /\ out[p] # <<>> =>
               /\ pc[p] \in {"print", "remove", "done"}
               /\ IsPrefix(out[p], Ids(n_largest[p]))
               /\ sent[p] # <<>> => req[p].status_code = range_not_satisfiable
               /\ cache.exists =>
                      /\ cache.sealed
                      /\ StreamOk(cache.data)
                      /\ n_largest[p] = process_file(cache.data, args[p].n)

\* C10's case: a run that fetched a file whose first line is a record and
\* whose second line is malformed, and failed without output.
C10_Witness ==
    \E p \in Procs :
        /\ pc[p] = "failed"
        /\ err[p] = "ValueError"
        /\ sent[p] # <<>>
        /\ id_number_tuple_generator(cache.data) # <<>>
        /\ out[p] = <<>>

(***************************************************************************)
(* Specification of two concurrent invocations of get for the same URL and *)
(* cache root, each run once, interleaved at the granularity of requests   *)
(* and file operations.  The cache starts empty or holding the entry of a  *)
(* completed fetch.                                                        *)
(***************************************************************************)
\* The concurrent invocations share one chunk size, large enough that the
\* resource is fetched in two windows.
ConcChunkSize == MinChunkSize + 3

\* Line 62, with nothing that keeps a second invocation from starting.
InvokeConcurrently(p) ==
    /\ pc[p] = "idle"
    /\ \E nc \in BOOLEAN, rc \in BOOLEAN :
           args' = [args EXCEPT ![p] = [no_cache |-> nc, refresh_cache |-> rc,
                                        chunk_size |-> ConcChunkSize,
                                        n |-> MaxN]]
    /\ pc' = [pc EXCEPT ![p] = "check"]
    /\ current_chunk' = [current_chunk EXCEPT ![p] = FILE_START]
    /\ UNCHANGED <<remote, cache, origin, req, n_largest, out, err, sent,
                   bodies, before, sel, aux>>

\* Line 63: gzip.open(..., 'rb') of a path another invocation removed.
OpenFails(p) ==
    /\ pc[p] = "open"
    /\ ~cache.exists
    /\ Raise(p, "FileNotFoundError")
    /\ UNCHANGED <<remote, cache, origin, args, current_chunk, req, n_largest,
                   out, sent, bodies, before, sel, aux>>

\* Line 64 on a file whose writer has not closed it, part of the stream
\* being on disk: the gzip reader meets the end of the file before the
\* trailer and raises EOFError.
ReadTruncated(p) ==
    /\ pc[p] = "process"
    /\ ~cache.sealed /\ ~cache.torn
    /\ Raise(p, "EOFError")
    /\ UNCHANGED <<remote, cache, origin, args, current_chunk, req, n_largest,
                   out, sent, bodies, before, sel, aux>>

\* Line 64 on a file whose writer has not closed it, nothing being on disk
\* yet: readline() returns b'' at once and process_file returns [].
ReadUnflushed(p) ==
    /\ pc[p] = "process"
    /\ ~cache.sealed /\ ~cache.torn
    /\ n_largest' = [n_largest EXCEPT ![p] = process_file(<<>>, args[p].n)]
    /\ pc' = [pc EXCEPT ![p] = "print"]
    /\ UNCHANGED <<remote, cache, origin, args, current_chunk, req, out, err,
                   sent, bodies, before, sel, aux>>

\* Line 64 on a file two writers wrote at once: the bytes are no gzip stream.
ReadCorrupt(p) ==
    /\ pc[p] = "process"
    /\ cache.torn
    /\ Raise(p, "BadGzipFile")
    /\ UNCHANGED <<remote, cache, origin, args, current_chunk, req, n_largest,
                   out, sent, bodies, before, sel, aux>>

\* Line 68: os.remove of a path that is not there raises FileNotFoundError.
RemoveFails(p) ==
    /\ pc[p] = "remove"
    /\ ~cache.exists
    /\ Raise(p, "FileNotFoundError")
    /\ UNCHANGED <<remote, cache, origin, args, current_chunk, req, n_largest,
                   out, sent, bodies, before, sel, aux>>

InitConc ==
    /\ remote \in [body : Resources, encoding : {"utf-8"}]
    /\ cache \in {NoFile,
                  [exists |-> TRUE,
                   data |-> CompleteFetch(FILE_START, ConcChunkSize),
                   sealed |-> TRUE, torn |-> FALSE]}
    /\ origin = NoOrigin
    /\ IdleLocals
    /\ sel = NoSel
    /\ dir = NoDir
    /\ rec = NoRec

NextConc ==
    \E p \in Procs :
        \/ InvokeConcurrently(p)
        \/ CacheHit(p)
        \/ CreateFile(p)
        \/ Request(p)
        \/ WriteChunk(p)
        \/ RaiseUnsupported(p)
        \/ RaiseForStatus(p)
        \/ SkipChunk(p)
        \/ CloseFile(p)
        \/ OpenFile(p)
        \/ OpenFails(p)
        \/ Process(p)
        \/ ParseFails(p)
        \/ ReadTruncated(p)
        \/ ReadUnflushed(p)
        \/ ReadCorrupt(p)
        \/ PrintNext(p)
        \/ PrintDone(p)
        \/ Remove(p)
        \/ RemoveFails(p)

SpecConc == InitConc /\ [][NextConc]_vars

\* C11: an invocation that took the cache hit never reads the file while
\* another invocation is still writing it, nor after another invocation
\* abandoned it half-written.
C11_HitReadsCommittedFile ==
    \A p \in Procs :
        Hit(p) /\ pc[p] = "process" =>
            \A q \in Procs \ {p} :
                /\ q \notin Writers
                /\ ~(pc[q] = "failed" /\ err[q] = "HTTPError")

\* C12: the delete step of get --no-cache completes without error, the file
\* being present or already absent.
C12_RemoveIdempotent ==
    [][\A p \in Procs :
           pc[p] = "remove" => pc'[p] \in {"remove", "done"}]_vars

\* The byte positions a Range header asks for, both ends included.
Window(range) == range[1]..range[2]

\* C14: the k-th request of a fetch asks for bytes o_k..o_k + chunk_size with
\* o_0 the file start and o_(k+1) = o_k + chunk_size + 1: the offsets rise
\* strictly, consecutive windows neither overlap nor leave a gap, and every
\* byte position up to the last window's end is asked for exactly once.
C14_WindowsTile ==
    \A p \in Procs :
        LET cs == args[p].chunk_size
            n  == Len(sent[p])
        IN  /\ n > 0 => sent[p][1][1] = FILE_START
            /\ \A k \in 1..n : sent[p][k][2] = sent[p][k][1] + cs
            /\ \A k \in 1..(n - 1) :
                   /\ sent[p][k + 1][1] = sent[p][k][1] + cs + 1
                   /\ sent[p][k + 1][1] > sent[p][k][1]
                   /\ sent[p][k + 1][1] = sent[p][k][2] + 1
            /\ n > 0 =>
                   \A b \in FILE_START..sent[p][n][2] :
                       Cardinality({k \in 1..n : b \in Window(sent[p][k])}) = 1

\* A fetch that has sent three requests, two of them after a written chunk.
C14_Witness ==
    \E p \in Procs : Len(sent[p]) >= 3 /\ Len(bodies[p]) >= 2

(***************************************************************************)
(* Specification of set_cache_dir (lines 73-97) followed by the lookup of  *)
(* get (lines 51-62, 146-150).  dir holds the configuration file, the      *)
(* directories, the files in them, and a record of the last command.       *)
(***************************************************************************)
DEFAULT_CACHE_PATH == "default"

\* The directories a cache root can name, and a path that is a regular file.
Roots == {DEFAULT_CACHE_PATH, "a", "b"}

RegularFile == "f"

Urls == {1, 2}

\* Line 146: '{}.gz'.format(sha256(url).hexdigest()).
file_name(url) == <<url, "gz">>

\* The names a directory may hold: the cache entries and one other file.
Names == {file_name(u) : u \in Urls} \cup {<<1, "txt">>}

\* Line 91: old_cache_path.glob('*.gz'); a missing directory lists nothing.
glob(d, root) ==
    IF root \in d.exists
    THEN {name \in Names : name[2] = "gz" /\ d.files[root][name] # "none"}
    ELSE {}

\* Lines 81-84 of set_cache_dir and 52-55 of get: a missing configuration
\* file is created with the default path.
config_of(d) == IF d.config = "none" THEN DEFAULT_CACHE_PATH ELSE d.config

\* A migration that copies the entries and leaves the originals in place.
copied(files, listed, old, target) ==
    [r \in Roots |->
        [name \in Names |->
            IF name \in listed /\ r = target THEN files[old][name]
            ELSE files[r][name]]]

\* Lines 91-92: file.rename(target_cache_path / file.name) for every listed
\* file; a file of that name in the target is replaced.
renamed(files, listed, old, target) ==
    [r \in Roots |->
        [name \in Names |->
            IF name \notin listed THEN files[r][name]
            ELSE IF r = target THEN files[old][name]
            ELSE IF r = old THEN "none"
            ELSE files[r][name]]]

\* Lines 78-80: the path is a file.
SetCacheDirRefused ==
    /\ dir.pc \in {"ready", "set", "got", "refused"}
    /\ dir' = [dir EXCEPT !.target = RegularFile, !.pc = "refused"]
    /\ UNCHANGED <<remote, cache, origin, locals, sel, rec>>

\* Lines 73-97, the path being a directory or not existing.
set_cache_dir(absolute_path) ==
    /\ dir.pc \in {"ready", "set", "got", "refused"}
    /\ LET old == config_of(dir)
           listed == glob(dir, old)
       IN  dir' = [dir EXCEPT
                     !.exists = @ \cup {absolute_path},
                     !.files = renamed(@, listed, old, absolute_path),
                     !.config = absolute_path,
                     !.target = absolute_path,
                     !.old = old,
                     !.listed = listed,
                     !.pc = "set"]
    /\ UNCHANGED <<remote, cache, origin, locals, sel, rec>>

\* Lines 51-62 and 146-150 of a get that follows: the configured root is
\* read, the entry is looked up, and on a miss the resource is fetched into
\* a new file under that root.
Lookup(url, should_refresh) ==
    /\ dir.pc = "set"
    /\ LET cache_root == config_of(dir)
           cache_file == [exists |-> /\ cache_root \in dir.exists
                                     /\ dir.files[cache_root][file_name(url)] # "none"]
           is_hit == cache_hit(cache_file, should_refresh)
       IN  dir' = [dir EXCEPT
                     !.config = cache_root,
                     !.url = url,
                     !.refresh = should_refresh,
                     !.hit = is_hit,
                     !.requests = IF is_hit THEN 0 ELSE 1,
                     !.files = IF is_hit THEN @
                               ELSE [@ EXCEPT ![cache_root][file_name(url)] = cache_root],
                     !.pc = "got"]
    /\ UNCHANGED <<remote, cache, origin, locals, sel, rec>>

\* Every directory is missing or holds some of the names; a file is tagged
\* with the directory it was written in.
InitDir ==
    /\ \E config \in Roots \cup {"none"}, exists \in SUBSET Roots :
       \E present \in [exists -> SUBSET Names] :
           dir = [NoDir EXCEPT
                    !.config = config,
                    !.exists = exists,
                    !.files = [r \in Roots |->
                                  [name \in Names |->
                                      IF r \in exists /\ name \in present[r]
                                      THEN r ELSE "none"]],
                    !.pc = "ready"]
    /\ remote = [body |-> <<>>, encoding |-> "utf-8"]
    /\ cache = NoFile
    /\ origin = NoOrigin
    /\ IdleLocals
    /\ sel = NoSel
    /\ rec = NoRec

NextDir ==
    \/ SetCacheDirRefused
    \/ \E absolute_path \in Roots : set_cache_dir(absolute_path)
    \/ \E url \in Urls, should_refresh \in BOOLEAN : Lookup(url, should_refresh)

SpecDir == InitDir /\ [][NextDir]_vars

\* C13 as stated: once set_cache_dir has completed, every entry listed in
\* the old root is under the new root and not under the old one, the
\* configuration names the new root, and a get (without --refresh-cache) for
\* a URL whose entry was listed is a hit that sends no request.
C13_MigratedAndAbsentFromOld ==
    dir.pc \in {"set", "got"} =>
        /\ \A name \in dir.listed :
               /\ dir.files[dir.target][name] # "none"
               /\ dir.files[dir.old][name] = "none"
        /\ dir.config = dir.target
        /\ (dir.pc = "got" /\ file_name(dir.url) \in dir.listed /\ ~dir.refresh) =>
               dir.hit /\ dir.requests = 0

\* C13 amended: the entries leave the old root when the new root is another
\* directory; set to the root it already is, they stay where they are.
C13_Migrated ==
    dir.pc \in {"set", "got"} =>
        /\ \A name \in dir.listed :
               /\ dir.files[dir.target][name] # "none"
               /\ dir.target # dir.old => dir.files[dir.old][name] = "none"
        /\ dir.config = dir.target
        /\ (dir.pc = "got" /\ file_name(dir.url) \in dir.listed /\ ~dir.refresh) =>
               dir.hit /\ dir.requests = 0

\* A migration to another directory has moved two entries, and the get that
\* followed found one of them.
C13_Witness ==
    /\ dir.pc = "got"
    /\ dir.target # dir.old
    /\ Cardinality(dir.listed) = 2
    /\ file_name(dir.url) \in dir.listed
    /\ dir.hit

(***************************************************************************)
(* Specification of the record stream alone: id_number_tuple_generator     *)
(* (lines 131-133) pulling split_generator (lines 136-141) over every file *)
(* of up to MaxFileLen bytes.  rec.at counts the lines read, rec.from      *)
(* names the line each yielded record came from.                           *)
(***************************************************************************)
\* The bytes of the files: 'a', '5', space and newline.
Alphabet == {97, 53, 32, 10}

\* A generator that passes over a line it cannot use.
SkipMalformed ==
    /\ rec.status = "running"
    /\ rec.at < Len(rec.lines)
    /\ ~LineOk(rec.lines[rec.at + 1])
    /\ rec' = [rec EXCEPT !.at = @ + 1]
    /\ UNCHANGED <<remote, cache, origin, locals, sel, dir>>

\* Lines 137-141 and 132-133: a line is read, split, unpacked and yielded.
YieldRecord ==
    /\ rec.status = "running"
    /\ rec.at < Len(rec.lines)
    /\ LineOk(rec.lines[rec.at + 1])
    /\ rec' = [rec EXCEPT !.at = @ + 1,
                          !.yielded = Append(@, LineRecord(rec.lines[rec.at + 1])),
                          !.from = Append(@, rec.at + 1)]
    /\ UNCHANGED <<remote, cache, origin, locals, sel, dir>>

\* Lines 132-133: the unpacking or int() raises ValueError, which ends the
\* generator.
RaiseValueError ==
    /\ rec.status = "running"
    /\ rec.at < Len(rec.lines)
    /\ ~LineOk(rec.lines[rec.at + 1])
    /\ rec' = [rec EXCEPT !.at = @ + 1, !.status = "failed"]
    /\ UNCHANGED <<remote, cache, origin, locals, sel, dir>>

\* Lines 138-139: readline() returns b'' and the generator is exhausted.
EndOfFile ==
    /\ rec.status = "running"
    /\ rec.at = Len(rec.lines)
    /\ rec' = [rec EXCEPT !.status = "ended"]
    /\ UNCHANGED <<remote, cache, origin, locals, sel, dir>>

InitRec ==
    /\ \E len \in 0..MaxFileLen :
       \E bytes \in [1..len -> Alphabet] :
           rec = [NoRec EXCEPT !.bytes = bytes,
                               !.lines = readlines(bytes, <<>>),
                               !.status = "running"]
    /\ remote = [body |-> <<>>, encoding |-> "utf-8"]
    /\ cache = NoFile
    /\ origin = NoOrigin
    /\ IdleLocals
    /\ sel = NoSel
    /\ dir = NoDir

NextRec == YieldRecord \/ RaiseValueError \/ EndOfFile

SpecRec == InitRec /\ [][NextRec]_vars

RECURSIVE Tokens(_, _)
\* The whitespace-separated tokens of a line: its maximal runs of bytes that
\* are not whitespace.
Tokens(line, word) ==
    IF line = <<>> THEN (IF word = <<>> THEN <<>> ELSE <<word>>)
    ELSE IF IsSpace(Head(line))
         THEN (IF word = <<>> THEN <<>> ELSE <<word>>) \o Tokens(Tail(line), <<>>)
         ELSE Tokens(Tail(line), Append(word, Head(line)))

\* A line with at least two tokens, the second an integer.
HasIdAndValue(line) ==
    LET toks == Tokens(line, <<>>) IN Len(toks) >= 2 /\ IsInt(toks[2])

\* C15: every line the stream has read that has at least two tokens, the
\* second an integer, was yielded as (first token, value of the second),
\* however many tokens follow.
C15_FirstTwoTokensYielded ==
    \A i \in 1..rec.at :
        HasIdAndValue(rec.lines[i]) =>
            \E k \in 1..Len(rec.yielded) :
                /\ rec.from[k] = i
                /\ rec.yielded[k] = <<Tokens(rec.lines[i], <<>>)[1],
                                      int(Tokens(rec.lines[i], <<>>)[2])>>

\* C16: a line the stream has read that has fewer than two tokens or whose
\* second token is no integer made the stream fail at that line: the stream
\* has read no further and has yielded nothing from that line on.
C16_MalformedLineFails ==
    \A i \in 1..rec.at :
        LET toks == Tokens(rec.lines[i], <<>>) IN
        (Len(toks) < 2 \/ ~IsInt(toks[2])) =>
            /\ rec.status = "failed"
            /\ rec.at = i
            /\ \A k \in 1..Len(rec.from) : rec.from[k] < i

\* The stream failed at a blank line that follows a yielded record and is
\* followed by a line that holds a record.
C16_Witness ==
    /\ rec.status = "failed"
    /\ rec.yielded # <<>>
    /\ rec.at < Len(rec.lines)
    /\ Tokens(rec.lines[rec.at], <<>>) = <<>>
    /\ HasIdAndValue(rec.lines[rec.at + 1])

(***************************************************************************)
(* Specification of get against a range-compliant server: partial content  *)
(* for every offset below the length of the resource, range not            *)
(* satisfiable at or beyond it.  A process that can take a step takes one. *)
(***************************************************************************)
CompliantStatus(offset) ==
    IF offset < Len(remote.body) THEN SUCCESS_STATUS ELSE range_not_satisfiable

\* Lines 151-152 and 162-163, the server being range-compliant.
RequestCompliant(p) ==
    /\ pc[p] = "request"
    /\ LET range == make_range_header(current_chunk[p], args[p].chunk_size)
           status == CompliantStatus(current_chunk[p])
       IN  /\ sent' = [sent EXCEPT ![p] = Append(@, range)]
           /\ req' = [req EXCEPT ![p] = [status_code |-> status,
                                         body |-> ServerBody(status, range)]]
    /\ pc' = [pc EXCEPT ![p] = "loop"]
    /\ UNCHANGED <<remote, cache, origin, args, current_chunk, n_largest, out,
                   err, bodies, before, sel, aux>>

NextCompliant ==
    \E p \in Procs :
        \/ Invoke(p)
        \/ CacheHit(p)
        \/ CreateFile(p)
        \/ RequestCompliant(p)
        \/ WriteChunk(p)
        \/ CloseFile(p)
        \/ OpenFile(p)
        \/ Process(p)
        \/ ParseFails(p)
        \/ PrintNext(p)
        \/ PrintDone(p)
        \/ Remove(p)
        \/ Exit(p)

\* The steps of the fetch loop (lines 151-166): a process inside the loop
\* goes on to its next request, write or close.
FetchStep(p) == RequestCompliant(p) \/ WriteChunk(p) \/ CloseFile(p)

SpecCompliant ==
    Init /\ [][NextCompliant]_vars /\ \A p \in Procs : WF_vars(FetchStep(p))

\* The invocation has left the fetch loop it entered.
Fetched(p) ==
    /\ pc[p] \in {"open", "process", "print", "remove", "done", "failed"}
    /\ sent[p] # <<>>

\* ceil(L / (chunk_size + 1)).
PartialRequests(L, chunk_size) == (L + chunk_size) \div (chunk_size + 1)

\* What holds once a fetch from a compliant server has left its loop: the
\* requests were the partial-content ones and one terminal one, the file is
\* closed, and an empty resource took one request and left an empty entry
\* from which nothing is printed and nothing fails.
FetchedAsCounted ==
    \A p \in Procs :
        Fetched(p) =>
            LET L == Len(remote.body) IN
            /\ Len(bodies[p]) = PartialRequests(L, args[p].chunk_size)
            /\ Len(sent[p]) = Len(bodies[p]) + 1
            /\ pc[p] = "open" => cache.exists /\ cache.sealed
            /\ L = 0 => /\ Len(sent[p]) = 1
                        /\ pc[p] \in {"open", "process"} =>
                               cache.exists /\ cache.data = <<>>
                        /\ out[p] = <<>>
                        /\ pc[p] # "failed"

\* C17: against a range-compliant server every fetch loop terminates, having
\* sent exactly ceil(L / (chunk_size + 1)) partial-content requests and one
\* terminal request, with the file flushed and closed; for L = 0 it sends a
\* single request and commits an empty entry from which get prints nothing
\* without error.
C17_FetchTerminates ==
    /\ []FetchedAsCounted
    /\ \A p \in Procs : (pc[p] = "request") ~> (Fetched(p) /\ pc[p] = "open")

\* A fetch of three chunks has ended and its file is closed.
C17_Witness ==
    \E p \in Procs :
        /\ pc[p] = "open"
        /\ Len(bodies[p]) >= 3
        /\ Len(sent[p]) = Len(bodies[p]) + 1
        /\ cache.sealed

====
